---- MODULE Spec2Model ----
(***************************************************************************)
(* A model of colbert/indexing/codecs/residual.py (ResidualCodec) and of   *)
(* colbert/training/lazy_batcher.py (LazyBatcher).                         *)
(*                                                                         *)
(* Tensors.  A 2-d tensor is a record [size0, size1, data] with data the   *)
(* contiguous (row-major) flattening; a 1-d tensor is a sequence.  Indices *)
(* that are 0-based in the source are 0-based values here, stored at       *)
(* sequence position index+1.                                              *)
(*                                                                         *)
(* Scalars.  A floating-point scalar is an integer in units of             *)
(* 1/(10*2^24): every IEEE half-precision value below 12 in magnitude is a *)
(* multiple of 10 units, and the decimal constants of the codec's tables   *)
(* (0.9, 0.3, 0.25, ...) are whole numbers of units.                       *)
(***************************************************************************)
EXTENDS Integers, Sequences, FiniteSets, TLC

VARIABLES
    codec,           \* the ResidualCodec object: its fields, or the uninitialized marker
    cuda_available,  \* environment: torch.cuda.is_available()
    call,            \* the codec call in flight: operation, arguments, outcome
    pc,              \* position of the codec's caller
    arg,             \* input of the pure function under check
    out,             \* results the pure function produced so far
    step,            \* position in the pure function's pipeline
    triples,         \* LazyBatcher.triples
    bsize,           \* LazyBatcher.bsize
    nway,            \* LazyBatcher.nway
    position,        \* LazyBatcher.position
    last,            \* outcome of the latest LazyBatcher call
    returned,        \* batches returned by __next__ so far, in order
    stops,           \* number of __next__ calls that raised StopIteration
    skipped          \* number of skip_to_batch calls so far

codecVars   == <<codec, cuda_available, call, pc>>
pureVars    == <<arg, out, step>>
batcherVars == <<triples, bsize, nway, position, last, returned, stops, skipped>>
vars        == <<codec, cuda_available, call, pc, arg, out, step,
                 triples, bsize, nway, position, last, returned, stops, skipped>>

None == "None"
NoCall == [status |-> "none"]

CodecIdle   == /\ codec = [state |-> "unused"] /\ cuda_available = FALSE
               /\ call = [op |-> "none"] /\ pc = "unused"
PureIdle    == arg = None /\ out = None /\ step = "unused"
BatcherIdle == /\ triples = <<>> /\ bsize = 0 /\ nway = 0 /\ position = 0
               /\ last = NoCall /\ returned = <<>> /\ stops = 0 /\ skipped = 0

(***************************************************************************)
(* Bounds of the model.                                                    *)
(***************************************************************************)
MaxRows == 2
MaxDimMult == 1
HotSpan == 1

(***************************************************************************)
(* Outcomes of a call: a value, or the exception that left it.             *)
(***************************************************************************)
Ok(v)  == [status |-> "ok", value |-> v]
Err(e) == [status |-> "error", error |-> e]
IsOk(r) == r.status = "ok"

T2(n, w, d) == [size0 |-> n, size1 |-> w, data |-> d]

NBITS == {1, 2, 4, 8}

(***************************************************************************)
(* Bit-level helpers of torch / numpy / cupy.                              *)
(***************************************************************************)
\* (x >> k) & 1 on unsigned integers
Bit(x, k) == (x \div (2^k)) % 2

\* torch.arange(0, nbits, dtype=uint8)
arange_bits(nbits) == [k \in 1..nbits |-> k - 1]

\* unsqueeze(-1).expand(.., nbits) >> arange_bits & 1, then flatten():
\* element e of the flattened codes contributes nbits consecutive bits,
\* the k-th of them being bit arange_bits[k] of the code.
expand_bits(codes, nbits) ==
    [i \in 1..(Len(codes) * nbits) |->
        Bit(codes[((i - 1) \div nbits) + 1],
            arange_bits(nbits)[((i - 1) % nbits) + 1])]

\* packbits with bitorder 'little': the first bit of a group is the byte's bit 0
packbits_little(bits) ==
    LET b(i) == IF i <= Len(bits) THEN bits[i] ELSE 0
    IN  [j \in 1..((Len(bits) + 7) \div 8) |->
            b(8*j - 7) + b(8*j - 6) * 2 + b(8*j - 5) * 4 + b(8*j - 4) * 8
            + b(8*j - 3) * 16 + b(8*j - 2) * 32 + b(8*j - 1) * 64 + b(8*j) * 128]

\* cupy.packbits (default bitorder 'big'): 8 consecutive bits per byte, the
\* first of them the byte's most significant bit; the tail is zero-padded.
packbits(bits) ==
    LET b(i) == IF i <= Len(bits) THEN bits[i] ELSE 0
    IN  [j \in 1..((Len(bits) + 7) \div 8) |->
            b(8*j - 7) * 128 + b(8*j - 6) * 64 + b(8*j - 5) * 32 + b(8*j - 4) * 16
            + b(8*j - 3) * 8 + b(8*j - 2) * 4 + b(8*j - 1) * 2 + b(8*j)]

\* np.unpackbits / cupy.unpackbits: each byte gives its 8 bits, most significant first
unpackbits(bytes) ==
    [i \in 1..(8 * Len(bytes)) |-> Bit(bytes[((i - 1) \div 8) + 1], 7 - ((i - 1) % 8))]

(***************************************************************************)
(* ResidualCodec.binarize after the bucketize call: bit expansion, the two *)
(* assertions, packbits and the reshape to dim // 8 * nbits columns.       *)
(***************************************************************************)
binarize_codes(codes, dim, nbits) ==
    IF dim % 8 # 0 \/ dim % (nbits * 8) # 0
    THEN Err("AssertionError")
    ELSE LET packed == packbits(expand_bits(codes.data, nbits))
             width  == (dim \div 8) * nbits
         IN  IF Len(packed) # codes.size0 * width
             THEN Err("RuntimeError")
             ELSE Ok(T2(codes.size0, width, packed))

(***************************************************************************)
(* ResidualCodec.decompress_residuals (non-accelerated branch) up to the   *)
(* weight lookup: the assertions, unpackbits, and for nbits > 1 the        *)
(* reshape to n-bit groups, the shift by arange_bits and the sum.          *)
(***************************************************************************)
RECURSIVE shift_sum(_, _, _, _)
\* (group << arange_bits).sum(-1) for the nbits bits that start after base
shift_sum(bits, base, nbits, k) ==
    IF k > nbits THEN 0
    ELSE bits[base + k] * (2^(arange_bits(nbits)[k])) + shift_sum(bits, base, nbits, k + 1)

unpack_codes(binary_residuals, dim, nbits) ==
    IF binary_residuals.size1 # (dim \div 8) * nbits
    THEN Err("AssertionError")
    ELSE LET bits == unpackbits(binary_residuals.data)
             n    == binary_residuals.size0
         IN  IF nbits > 1 /\ Len(bits) # n * dim * nbits THEN Err("RuntimeError")
             ELSE IF nbits = 1 /\ Len(bits) # n * dim THEN Err("RuntimeError")
             ELSE Ok(T2(n, dim,
                     IF nbits > 1
                     THEN [e \in 1..(n * dim) |-> shift_sum(bits, (e - 1) * nbits, nbits, 1)]
                     ELSE bits))

(***************************************************************************)
(* Specification SpecPack: the pack step of binarize followed by the       *)
(* unpack step of decompress_residuals, on matrices of codes.              *)
(***************************************************************************)
\* Row r (0-based) of a code matrix: `hot` at 0-based column (p + r) % dim,
\* `fill` elsewhere.
CodeMatrix(n, dim, p, hot, fill) ==
    T2(n, dim, [i \in 1..(n * dim) |->
                  IF (i - 1) % dim = (p + ((i - 1) \div dim)) % dim THEN hot ELSE fill])

PackInputsFor(nb) ==
    { [nbits |-> nb, dim |-> 8 * nb * m, x |-> CodeMatrix(n, 8 * nb * m, p, hot, fill)] :
        m \in 1..MaxDimMult, n \in 1..MaxRows, p \in 0..(HotSpan * (8 \div nb) - 1),
        hot \in 0..(2^nb - 1), fill \in {0, 2^nb - 1} }

PackInputs == UNION { PackInputsFor(nb) : nb \in NBITS }

PackInit ==
    /\ arg \in PackInputs
    /\ out = None
    /\ step = "start"
    /\ CodecIdle /\ BatcherIdle

Pack ==
    /\ step = "start"
    /\ out' = [packed |-> binarize_codes(arg.x, arg.dim, arg.nbits)]
    /\ step' = "packed"
    /\ UNCHANGED <<arg, codecVars, batcherVars>>

Unpack ==
    /\ step = "packed"
    /\ IsOk(out.packed)
    /\ out' = [packed |-> out.packed,
               unpacked |-> unpack_codes(out.packed.value, arg.dim, arg.nbits)]
    /\ step' = "unpacked"
    /\ UNCHANGED <<arg, codecVars, batcherVars>>

PackNext == Pack \/ Unpack

SpecPack == PackInit /\ [][PackNext]_vars

\* C1: unpacking the bytes that packing produced returns exactly the code
\* matrix x, for every bit width, dimension and matrix of codes in [0, 2^n).
C1_RoundTrip ==
    step = "unpacked" => out.unpacked = Ok(arg.x)

C1_Witness ==
    /\ step = "unpacked"
    /\ arg.nbits = 2
    /\ arg.x.size0 = 2
    /\ \E i \in 1..Len(arg.x.data) : arg.x.data[i] = 1
    /\ out.unpacked = Ok(arg.x)

\* The n-bit sub-field of column e (0-based, flattened) read from its byte as
\* an ordinary big-endian number.
SubFieldBigEndian(packed, e, nbits) ==
    LET per  == 8 \div nbits
        byte == packed[(e \div per) + 1]
    IN  (byte \div (2^(8 - ((e % per) + 1) * nbits))) % (2^nbits)

\* C2: codes are packed in dimension order, 8/n per byte, and each n-bit
\* sub-field read most-significant-bit-first gives the code of its dimension.
C2_PackingOrderMSBFirst ==
    step = "packed" =>
        /\ IsOk(out.packed)
        /\ \A e \in 0..(Len(arg.x.data) - 1) :
              SubFieldBigEndian(out.packed.value.data, e, arg.nbits) = arg.x.data[e + 1]

(***************************************************************************)
(* The first line of ResidualCodec.binarize:                               *)
(* torch.bucketize(residuals.float(), bucket_cutoffs).to(dtype=uint8).     *)
(***************************************************************************)
RECURSIVE upper_bound(_, _, _, _)
\* binary search for the number of boundaries that are <= v
upper_bound(v, boundaries, lo, hi) ==
    IF lo >= hi THEN lo
    ELSE LET mid == lo + ((hi - lo) \div 2)
         IN  IF boundaries[mid + 1] <= v
             THEN upper_bound(v, boundaries, mid + 1, hi)
             ELSE upper_bound(v, boundaries, lo, mid)

\* torch.bucketize with right=True
bucketize_right(values, boundaries) ==
    [i \in 1..Len(values) |-> upper_bound(values[i], boundaries, 0, Len(boundaries))]

RECURSIVE lower_bound(_, _, _, _)
\* binary search over the sorted boundaries for the first (0-based) index
\* whose boundary is >= v
lower_bound(v, boundaries, lo, hi) ==
    IF lo >= hi THEN lo
    ELSE LET mid == lo + ((hi - lo) \div 2)
         IN  IF boundaries[mid + 1] < v
             THEN lower_bound(v, boundaries, mid + 1, hi)
             ELSE lower_bound(v, boundaries, lo, mid)

\* torch.bucketize with the default right=False: the index i with
\* boundaries[i-1] < v <= boundaries[i]
bucketize(values, boundaries) ==
    [i \in 1..Len(values) |-> lower_bound(values[i], boundaries, 0, Len(boundaries))]

\* .to(dtype=torch.uint8)
to_uint8(x) == x % 256

\* residuals.float() widens half values to float32 exactly; the values are kept.
quantization_codes(residuals, bucket_cutoffs) ==
    LET idx == bucketize(residuals.data, bucket_cutoffs)
    IN  T2(residuals.size0, residuals.size1, [i \in 1..Len(idx) |-> to_uint8(idx[i])])

binarize(residuals, bucket_cutoffs, dim, nbits) ==
    binarize_codes(quantization_codes(residuals, bucket_cutoffs), dim, nbits)

(***************************************************************************)
(* Specification SpecBucket: the bucketize line of binarize on one         *)
(* residual scalar, over strictly increasing cutoff tables.                *)
(***************************************************************************)
MaxGap == 2

\* lo, lo+g1, lo+g1+g2, lo+2*g1+g2, ... : len strictly increasing cutoffs
CutoffTable(len, lo, g1, g2) ==
    [i \in 1..len |-> lo + (i \div 2) * g1 + ((i - 1) \div 2) * g2]

BucketInputsFor(nb) ==
    { [nbits |-> nb, cutoffs |-> CutoffTable(2^nb - 1, lo, g1, g2), at |-> i, delta |-> d] :
        lo \in {-3, 0}, g1 \in 1..MaxGap, g2 \in 1..MaxGap,
        i \in 1..(2^nb - 1), d \in {-1, 0, 1} }

BucketInit ==
    /\ arg \in { [nbits |-> a.nbits, cutoffs |-> a.cutoffs, s |-> a.cutoffs[a.at] + a.delta] :
                    a \in UNION { BucketInputsFor(nb) : nb \in NBITS } }
    /\ out = None
    /\ step = "start"
    /\ CodecIdle /\ BatcherIdle

Bucketize ==
    /\ step = "start"
    /\ out' = quantization_codes(T2(1, 1, <<arg.s>>), arg.cutoffs).data[1]
    /\ step' = "bucketized"
    /\ UNCHANGED <<arg, codecVars, batcherVars>>

BucketNext == Bucketize

SpecBucket == BucketInit /\ [][BucketNext]_vars

CutoffsAtMost(s, cutoffs) == { i \in 1..Len(cutoffs) : cutoffs[i] <= s }
CutoffsBelow(s, cutoffs)  == { i \in 1..Len(cutoffs) : cutoffs[i] < s }

\* C3 (as claimed): the code is the number of cutoffs <= s, so a scalar equal
\* to a cutoff goes to the higher of the two adjacent buckets.
C3_CountAtMost ==
    step = "bucketized" => out = Cardinality(CutoffsAtMost(arg.s, arg.cutoffs))

\* C3 (amended): the code is the number of cutoffs strictly below s, so a
\* scalar equal to cutoff number i (0-based) gets code i, the lower of the two
\* adjacent buckets.
C3_CountBelow ==
    step = "bucketized" =>
        /\ out = Cardinality(CutoffsBelow(arg.s, arg.cutoffs))
        /\ \A i \in 1..Len(arg.cutoffs) : arg.s = arg.cutoffs[i] => out = i - 1

C3_Witness ==
    /\ step = "bucketized"
    /\ arg.nbits = 2
    /\ arg.s = arg.cutoffs[2]
    /\ out = 1

(***************************************************************************)
(* The accelerated-path tables built by ResidualCodec.__init__.            *)
(***************************************************************************)
RECURSIVE BitOr(_, _)
\* a | b on unsigned integers
BitOr(a, b) ==
    IF a = 0 THEN b
    ELSE IF b = 0 THEN a
    ELSE (IF a % 2 = 1 \/ b % 2 = 1 THEN 1 ELSE 0) + 2 * BitOr(a \div 2, b \div 2)

\* a sub-field left as it is
keep_field(x, nbits, k) == x

RECURSIVE reverse_field(_, _, _)
\* for k in range(nbits - 1, -1, -1): y += ((x >> (nbits - k - 1)) & 1) * (2 ** k)
reverse_field(x, nbits, k) ==
    IF k < 0 THEN 0
    ELSE Bit(x, nbits - k - 1) * (2^k) + reverse_field(x, nbits, k - 1)

RECURSIVE reversed_byte(_, _, _, _)
\* the body of `for j in range(8, 0, -self.nbits)` for byte i, from j on, with
\* z the byte built so far
reversed_byte(i, nbits, j, z) ==
    IF j <= 0 THEN z
    ELSE LET mask == 2^nbits - 1
             x    == (i \div (2^(j - nbits))) % (mask + 1)
             y    == reverse_field(x, nbits, nbits - 1)
             z1   == BitOr(z, y)
             z2   == IF j > nbits THEN z1 * (2^nbits) ELSE z1
         IN  reversed_byte(i, nbits, j - nbits, z2)

\* self.reversed_bit_map, as a uint8 tensor indexed by byte value
reversed_bit_map(nbits) ==
    [i \in 1..256 |-> to_uint8(reversed_byte(i - 1, nbits, 8, 0))]

\* list(product(range(base), repeat=repeat)) as a uint8 tensor, kept as the
\* pair of its arguments: row r of the product.
product_row(base, repeat, r) ==
    [t \in 1..repeat |-> to_uint8((r \div (base^(repeat - t))) % base)]

\* self.decompression_lookup_table
decompression_lookup_table(bucket_weights, nbits) ==
    [base |-> Len(bucket_weights), repeat |-> 8 \div nbits]

lookup_table_row(table, r) ==
    IF r < table.base^(table.repeat) THEN Ok(product_row(table.base, table.repeat, r))
    ELSE Err("IndexError")

One == 10 * 2^24

\* 2^tb - 1 evenly spaced cutoffs over (-1, 1) and the 2^tb bucket midpoints
CutoffsFor(tb) == [i \in 1..(2^tb - 1) |-> i * ((2 * One) \div (2^tb)) - One]
WeightsFor(tb) == [i \in 1..(2^tb) |-> (2 * i - 1) * (One \div (2^tb)) - One]

(***************************************************************************)
(* Specification SpecTables: the constructor's tables for the accelerated  *)
(* path against what the non-accelerated decompress_residuals extracts     *)
(* from a packed byte.                                                     *)
(***************************************************************************)
TablesInputsFor(nb) ==
    { [nbits |-> nb, bucket_weights |-> WeightsFor(nb), byte |-> b, at |-> q] :
        b \in 0..255, q \in 0..(nb - 1) }

TablesInit ==
    /\ arg \in UNION { TablesInputsFor(nb) : nb \in NBITS }
    /\ out = None
    /\ step = "start"
    /\ CodecIdle /\ BatcherIdle

BuildTables ==
    /\ step = "start"
    /\ out' = [reversed_bit_map |-> reversed_bit_map(arg.nbits),
               decompression_lookup_table |->
                   decompression_lookup_table(arg.bucket_weights, arg.nbits)]
    /\ step' = "built"
    /\ UNCHANGED <<arg, codecVars, batcherVars>>

\* A packed row of a dim = 8 codec (nbits bytes): arg.byte at 0-based byte
\* arg.at, zero elsewhere.
ProbeRow == T2(1, arg.nbits, [i \in 1..arg.nbits |-> IF i - 1 = arg.at THEN arg.byte ELSE 0])

LookupByte ==
    /\ step = "built"
    /\ LET per == 8 \div arg.nbits
           cpu == unpack_codes(ProbeRow, 8, arg.nbits)
       IN  out' = [reversed_bit_map |-> out.reversed_bit_map,
                   decompression_lookup_table |-> out.decompression_lookup_table,
                   gpu_row |-> lookup_table_row(out.decompression_lookup_table,
                                                out.reversed_bit_map[arg.byte + 1]),
                   cpu_codes |-> IF IsOk(cpu)
                                 THEN Ok([t \in 1..per |-> cpu.value.data[arg.at * per + t]])
                                 ELSE cpu]
    /\ step' = "looked_up"
    /\ UNCHANGED <<arg, codecVars, batcherVars>>

TablesNext == BuildTables \/ LookupByte

SpecTables == TablesInit /\ [][TablesNext]_vars

\* C9: for every n in {1,2,4,8} and every byte b, the row
\* decompression_lookup_table[reversed_bit_map[b]] is the sequence of 8/n
\* bucket indices the non-accelerated decompress_residuals extracts from b.
C9_TablesAgree ==
    step = "looked_up" => IsOk(out.gpu_row) /\ out.gpu_row = out.cpu_codes

C9_Witness ==
    /\ step = "looked_up"
    /\ arg.nbits = 2
    /\ arg.byte = 27
    /\ out.gpu_row = Ok(<<0, 2, 1, 3>>)
    /\ out.cpu_codes = Ok(<<0, 2, 1, 3>>)

(***************************************************************************)
(* Floating point.  Scalars of the model's inputs are float32 values; the  *)
(* sums and differences the model forms of them are exact in float32.      *)
(***************************************************************************)
Abs(x) == IF x < 0 THEN -x ELSE x
Min(a, b) == IF a <= b THEN a ELSE b
Max(a, b) == IF a >= b THEN a ELSE b

RECURSIVE half_ulp(_, _)
\* the spacing of half-precision values around magnitude a (a below 8):
\* 2^-24 up to 2^-13, doubling with every binade (11 significant bits)
half_ulp(a, s) == IF a < 2048 * s THEN s ELSE half_ulp(a, 2 * s)

\* .half(): round to the nearest half-precision value, ties to even
half(x) ==
    LET a == Abs(x)
        s == half_ulp(a, 10)
        q == a \div s
        r == a % s
        n == IF 2 * r > s \/ (2 * r = s /\ q % 2 = 1) THEN q + 1 ELSE q
    IN  IF x < 0 THEN -(n * s) ELSE n * s

half_tensor(t) == T2(t.size0, t.size1, [i \in 1..Len(t.data) |-> half(t.data[i])])

(***************************************************************************)
(* torch.split and torch.cat along dimension 0.                            *)
(***************************************************************************)
num_splits(n, k) == Max((n + k - 1) \div k, 1)

rows(t, from, to) ==
    T2(to - from, t.size1, SubSeq(t.data, from * t.size1 + 1, to * t.size1))

\* a split that keeps only the first chunk
split_first_only(t, k) == << rows(t, 0, Min(k, t.size0)) >>

\* Tensor.split(k) of a 2-d tensor: chunks of k rows, the last one shorter;
\* one empty chunk for an empty tensor
split(t, k) ==
    [i \in 1..num_splits(t.size0, k) |-> rows(t, Min((i - 1) * k, t.size0), Min(i * k, t.size0))]

\* Tensor.split(k) of a 1-d tensor
split1(v, k) ==
    [i \in 1..num_splits(Len(v), k) |->
        SubSeq(v, Min((i - 1) * k, Len(v)) + 1, Min(i * k, Len(v)))]

RECURSIVE cat1(_)
\* torch.cat of 1-d tensors
cat1(parts) == IF parts = <<>> THEN <<>> ELSE Head(parts) \o cat1(Tail(parts))

RECURSIVE total_rows(_)
total_rows(parts) == IF parts = <<>> THEN 0 ELSE Head(parts).size0 + total_rows(Tail(parts))

\* torch.cat of 2-d tensors of one width
cat(parts) ==
    T2(total_rows(parts), parts[1].size1, cat1([i \in 1..Len(parts) |-> parts[i].data]))

\* the first exception raised over a sequence of per-chunk outcomes
FirstError(results) ==
    LET bad == { i \in 1..Len(results) : ~IsOk(results[i]) }
    IN  results[CHOOSE i \in bad : \A j \in bad : i <= j]

AllOk(results) == \A i \in 1..Len(results) : IsOk(results[i])

(***************************************************************************)
(* ResidualCodec.__init__                                                  *)
(***************************************************************************)
SPLIT_COMPRESS == 262144
CODES_BUDGET == 536870912
SPLIT_LOOKUP == 1048576
SPLIT_DECOMPRESS == 32768

Uninitialized == [state |-> "uninitialized"]

\* The object __init__ leaves behind.  use_gpu is config.total_visible_gpus > 0;
\* the accelerated codec keeps centroids and cutoffs in half precision and
\* builds the two lookup tables, the other keeps float32 and builds neither.
ResidualCodec(use_gpu, dim, nbits, centroids, bucket_cutoffs, bucket_weights) ==
    [state          |-> "ready",
     use_gpu        |-> use_gpu,
     centroids      |-> IF use_gpu THEN half_tensor(centroids) ELSE centroids,
     dim            |-> dim,
     nbits          |-> nbits,
     avg_residual   |-> None,
     bucket_cutoffs |-> IF use_gpu
                        THEN [i \in 1..Len(bucket_cutoffs) |-> half(bucket_cutoffs[i])]
                        ELSE bucket_cutoffs,
     bucket_weights |-> bucket_weights,
     arange_bits    |-> arange_bits(nbits),
     reversed_bit_map |-> IF use_gpu THEN reversed_bit_map(nbits) ELSE <<>>,
     decompression_lookup_table |->
         IF use_gpu THEN decompression_lookup_table(bucket_weights, nbits)
         ELSE [base |-> 0, repeat |-> 0]]

(***************************************************************************)
(* ResidualCodec.compress and what it calls.  The three chunk sizes are    *)
(* parameters: split.compress for embs.split in compress, split.codes for  *)
(* embs.split(bsize) in compress_into_codes, split.lookup for codes.split  *)
(* in lookup_centroids.                                                    *)
(***************************************************************************)
\* One term of centroids @ batch.T: the centroid entries of the model are
\* whole numbers, so the product is exact.
mul(c, v) == (c \div One) * v

RECURSIVE dot(_, _, _, _, _, _)
\* sum over the columns lo..hi of centroid row c times embedding row e
dot(centroids, c, embs, e, lo, hi) ==
    IF lo > hi THEN 0
    ELSE IF lo = hi
    THEN mul(centroids.data[c * centroids.size1 + lo], embs.data[e * embs.size1 + lo])
    ELSE LET mid == (lo + hi) \div 2
         IN  dot(centroids, c, embs, e, lo, mid) + dot(centroids, c, embs, e, mid + 1, hi)

\* (self.centroids @ batch.T).max(dim=0).indices for row e: the products are
\* rounded to half precision; of several maximal centroids the first wins
max_indices(centroids, embs, e) ==
    LET score(c) == half(dot(centroids, c, embs, e, 1, embs.size1))
    IN  CHOOSE c \in 0..(centroids.size0 - 1) :
            /\ \A d \in 0..(centroids.size0 - 1) : score(d) <= score(c)
            /\ \A d \in 0..(c - 1) : score(d) < score(c)

\* ResidualCodec.compress_into_codes on a chunk that is already on the device
compress_into_codes(cdc, embs, codes_bsize) ==
    IF ~cdc.use_gpu
    THEN Err("RuntimeError: centroids and batch differ in device and dtype")
    ELSE LET chunks == split(embs, codes_bsize)
         IN  Ok(cat1([i \in 1..Len(chunks) |->
                        [e \in 1..chunks[i].size0 |->
                            max_indices(cdc.centroids, chunks[i], e - 1)]]))

\* self.centroids[batch.long()] for a 1-d chunk of codes
index_centroids(cdc, codes) ==
    IF \E i \in 1..Len(codes) : codes[i] < 0 \/ codes[i] >= cdc.centroids.size0
    THEN Err("IndexError")
    ELSE Ok(T2(Len(codes), cdc.centroids.size1,
               [i \in 1..(Len(codes) * cdc.centroids.size1) |->
                   cdc.centroids.data[codes[((i - 1) \div cdc.centroids.size1) + 1]
                                        * cdc.centroids.size1
                                      + ((i - 1) % cdc.centroids.size1) + 1]]))

\* ResidualCodec.lookup_centroids
lookup_centroids(cdc, codes, chunk) ==
    LET parts == split1(codes, chunk)
        found == [i \in 1..Len(parts) |-> index_centroids(cdc, parts[i])]
    IN  IF AllOk(found) THEN Ok(cat([i \in 1..Len(found) |-> found[i].value]))
        ELSE FirstError(found)

\* residuals_ = (batch - centroids_), in half precision
subtract(batch, centroids_) ==
    T2(batch.size0, batch.size1,
       [i \in 1..Len(batch.data) |-> half(batch.data[i] - centroids_.data[i])])

\* the body of the loop of compress for one chunk of embs
compress_chunk(cdc, cuda, batch, chunks) ==
    IF ~cuda THEN Err("RuntimeError: no CUDA device")
    ELSE LET batch_  == half_tensor(batch)
             codes_  == compress_into_codes(cdc, batch_, chunks.codes)
         IN  IF ~IsOk(codes_) THEN codes_
             ELSE LET centroids_ == lookup_centroids(cdc, codes_.value, chunks.lookup)
                  IN  IF ~IsOk(centroids_) THEN centroids_
                      ELSE LET packed == binarize(subtract(batch_, centroids_.value),
                                                  cdc.bucket_cutoffs, cdc.dim, cdc.nbits)
                           IN  IF ~IsOk(packed) THEN packed
                               ELSE Ok([codes |-> codes_.value, residuals |-> packed.value])

\* ResidualCodec.compress
compress(cdc, cuda, embs, chunks) ==
    LET batches == split(embs, chunks.compress)
        done    == [i \in 1..Len(batches) |-> compress_chunk(cdc, cuda, batches[i], chunks)]
    IN  IF AllOk(done)
        THEN Ok([codes     |-> cat1([i \in 1..Len(done) |-> done[i].value.codes]),
                 residuals |-> cat([i \in 1..Len(done) |-> done[i].value.residuals])])
        ELSE FirstError(done)

(***************************************************************************)
(* ResidualCodec.decompress and what it calls.                             *)
(***************************************************************************)
\* self.bucket_weights[residuals.long()]
index_weights(cdc, codes) ==
    IF \E i \in 1..Len(codes.data) : codes.data[i] >= Len(cdc.bucket_weights)
    THEN Err("IndexError")
    ELSE Ok(T2(codes.size0, codes.size1,
               [i \in 1..Len(codes.data) |-> cdc.bucket_weights[codes.data[i] + 1]]))

\* ResidualCodec.decompress_residuals
decompress_residuals(cdc, binary_residuals) ==
    LET codes == unpack_codes(binary_residuals, cdc.dim, cdc.nbits)
    IN  IF IsOk(codes) THEN index_weights(cdc, codes.value) ELSE codes

\* centroids_.add_(residuals_)
add(centroids_, residuals_) ==
    T2(centroids_.size0, centroids_.size1,
       [i \in 1..Len(centroids_.data) |-> centroids_.data[i] + residuals_.data[i]])

\* torch.nn.functional.normalize(x, p=2, dim=-1) and the cast that follows,
\* kept as the unevaluated application to each row
normalize(t, dtype) ==
    [r \in 1..t.size0 |->
        [normalized |-> SubSeq(t.data, (r - 1) * t.size1 + 1, r * t.size1), dtype |-> dtype]]

\* decompress_residuals_cpp: the compiled kernel of the accelerated path.
\* It rejects a row width other than dim * nbits / 8, decodes every byte
\* through reversed_bit_map and decompression_lookup_table, and adds the
\* bucket weights to the centroid of the row's code.
decompress_residuals_cpp(cdc, residuals_, codes_) ==
    IF residuals_.size1 * 8 # cdc.dim * cdc.nbits THEN Err("ShapeMismatchError")
    ELSE LET per  == 8 \div cdc.nbits
             keys == [i \in 1..Len(residuals_.data) |->
                        lookup_table_row(cdc.decompression_lookup_table,
                                         cdc.reversed_bit_map[residuals_.data[i] + 1])]
             cent == index_centroids(cdc, codes_)
         IN  IF ~IsOk(cent) THEN cent
             ELSE IF ~AllOk(keys) THEN Err("IndexError")
             ELSE LET idx == T2(residuals_.size0, cdc.dim,
                                [e \in 1..(residuals_.size0 * cdc.dim) |->
                                    keys[((e - 1) \div per) + 1].value[((e - 1) % per) + 1]])
                      w   == index_weights(cdc, idx)
                  IN  IF IsOk(w) THEN Ok(add(cent.value, w.value)) ELSE w

\* the body of the loop of decompress for one chunk
decompress_chunk(cdc, codes_, residuals_) ==
    IF cdc.use_gpu
    THEN LET centroids_ == decompress_residuals_cpp(cdc, residuals_, codes_)
         IN  IF IsOk(centroids_) THEN Ok(normalize(centroids_.value, "half"))
             ELSE centroids_
    ELSE LET centroids_ == lookup_centroids(cdc, codes_, SPLIT_LOOKUP)
         IN  IF ~IsOk(centroids_) THEN centroids_
             ELSE LET residuals_f == decompress_residuals(cdc, residuals_)
                  IN  IF ~IsOk(residuals_f) THEN residuals_f
                      ELSE Ok(normalize(add(centroids_.value, residuals_f.value), "float32"))

\* ResidualCodec.decompress: zip of the two splits, one outcome per chunk
decompress(cdc, codes, residuals, chunk) ==
    LET cs   == split1(codes, chunk)
        rs   == split(residuals, chunk)
        done == [i \in 1..Min(Len(cs), Len(rs)) |-> decompress_chunk(cdc, cs[i], rs[i])]
    IN  IF AllOk(done) THEN Ok(cat1([i \in 1..Len(done) |-> done[i].value]))
        ELSE FirstError(done)

(***************************************************************************)
(* Specification Spec: a codec is constructed, then compress and           *)
(* decompress are called on it, one call at a time.                        *)
(***************************************************************************)
MaxCentroids == 2
MaxSplit == 1

\* float32(0.9) and float32(0.3), in units of 1/(10*2^24)
F09 == 15099494 * 10
F03 == 10066330 * 5

\* the values a, b, c of the embedding batches tried
EmbPatterns ==
    { <<F09, F03, 0>>, <<0, 0, 0>>, <<F03, 0, -(One \div 2)>>,
      <<-(One \div 2), F03, 0>>, <<F09, 0, -(One \div 2)>>, <<0, F03, 0>> }

\* dimensions offered to the constructor for bit width nb
Dims(nb) == {8, 12, 8 * nb}

\* bit widths of the bucket tables handed to a codec of bit width nb
TableBits(nb) == {nb, IF nb = 1 THEN 2 ELSE 1}

\* C one-hot centroids of dimension dim: centroid c is 1.0 at column c % dim
Centroids(C, dim) ==
    T2(C, dim, [i \in 1..(C * dim) |->
                  IF (i - 1) % dim = ((i - 1) \div dim) % dim THEN One ELSE 0])

\* n embeddings of dimension dim: row r (0-based) is a at column r % dim,
\* b at column (r + 1) % dim and c elsewhere
Embs(n, dim, a, b, c) ==
    T2(n, dim, [i \in 1..(n * dim) |->
                  LET r   == (i - 1) \div dim
                      col == (i - 1) % dim
                  IN  IF col = r % dim THEN a
                      ELSE IF col = (r + 1) % dim THEN b
                      ELSE c])

\* the chunk sizes the source hard-codes, and small ones: each of the three
\* splits made small alone, and all three together
ChunkChoices(cdc) ==
    LET src == [compress |-> SPLIT_COMPRESS,
                codes    |-> CODES_BUDGET \div cdc.centroids.size0,
                lookup   |-> SPLIT_LOOKUP]
    IN  {src}
        \cup { [src EXCEPT !.compress = j] : j \in 1..MaxSplit }
        \cup { [src EXCEPT !.codes = j] : j \in 1..MaxSplit }
        \cup { [src EXCEPT !.lookup = j] : j \in 1..MaxSplit }
        \cup { [compress |-> j, codes |-> j, lookup |-> j] : j \in 1..MaxSplit }

Init ==
    /\ codec = Uninitialized
    /\ cuda_available \in BOOLEAN
    /\ call = [op |-> "none"]
    /\ pc = "idle"
    /\ PureIdle /\ BatcherIdle

\* ResidualCodec(...) raising: the accelerated branch moves the centroids to a
\* CUDA device that is not there
ConstructFail ==
    /\ pc = "idle"
    /\ codec.state = "uninitialized"
    /\ ~cuda_available
    /\ call' = [op |-> "__init__", use_gpu |-> TRUE,
                result |-> Err("RuntimeError: no CUDA device")]
    /\ pc' = "returned"
    /\ UNCHANGED <<codec, cuda_available, pureVars, batcherVars>>

\* ResidualCodec(...) returning
Construct ==
    /\ pc = "idle"
    /\ codec.state = "uninitialized"
    /\ \E use_gpu \in BOOLEAN, nb \in NBITS, C \in 1..MaxCentroids :
       \E dim \in Dims(nb), tb \in TableBits(nb) :
          /\ use_gpu => cuda_available
          /\ codec' = ResidualCodec(use_gpu, dim, nb, Centroids(C, dim),
                                    CutoffsFor(tb), WeightsFor(tb))
          /\ call' = [op |-> "__init__", use_gpu |-> use_gpu, result |-> Ok(None)]
    /\ pc' = "returned"
    /\ UNCHANGED <<cuda_available, pureVars, batcherVars>>

\* codec.compress(embs)
Compress ==
    /\ pc = "idle"
    /\ codec.state = "ready"
    /\ \E n \in 0..MaxRows, abc \in EmbPatterns, chunks \in ChunkChoices(codec) :
          LET embs == Embs(n, codec.dim, abc[1], abc[2], abc[3])
          IN  call' = [op |-> "compress", embs |-> embs, chunks |-> chunks,
                       result |-> compress(codec, cuda_available, embs, chunks)]
    /\ pc' = "returned"
    /\ UNCHANGED <<codec, cuda_available, pureVars, batcherVars>>

\* row widths of the packed residuals handed to decompress
Widths(cdc) ==
    {(cdc.dim \div 8) * cdc.nbits, (cdc.dim \div 8) * cdc.nbits + 1,
     (cdc.dim * cdc.nbits + 7) \div 8}

\* codec.decompress(compressed_embs)
Decompress ==
    /\ pc = "idle"
    /\ codec.state = "ready"
    /\ \E n \in 0..MaxRows, w \in Widths(codec), code \in 0..codec.centroids.size0,
          b0 \in {27}, k \in (1..MaxSplit) \cup {SPLIT_DECOMPRESS} :
          LET codes     == [r \in 1..n |-> code]
              residuals == T2(n, w, [i \in 1..(n * w) |-> (b0 + 37 * (i - 1)) % 256])
          IN  call' = [op |-> "decompress", codes |-> codes, residuals |-> residuals,
                       chunk |-> k,
                       result |-> decompress(codec, codes, residuals, k)]
    /\ pc' = "returned"
    /\ UNCHANGED <<codec, cuda_available, pureVars, batcherVars>>

\* the caller takes the outcome; the codec is ready for the next call
Return ==
    /\ pc = "returned"
    /\ call' = [op |-> "none"]
    /\ pc' = "idle"
    /\ UNCHANGED <<codec, cuda_available, pureVars, batcherVars>>

Next == ConstructFail \/ Construct \/ Compress \/ Decompress \/ Return

Spec == Init /\ [][Next]_vars

Returned(op) == pc = "returned" /\ call.op = op

\* every chunk as large as the whole tensor
WholeBatch(n) ==
    [compress |-> Max(n, 1), codes |-> Max(n, 1), lookup |-> Max(n, 1)]

\* C4: whatever the chunk sizes, compress returns for every position the code
\* and the packed residual row it returns when the whole batch is one chunk,
\* in input order.
C4_ChunkIndependent ==
    Returned("compress") =>
        call.result = compress(codec, cuda_available, call.embs, WholeBatch(call.embs.size0))

C4_Witness ==
    /\ Returned("compress")
    /\ IsOk(call.result)
    /\ call.embs.size0 = 2
    /\ call.chunks.compress = 1
    /\ call.result.value.codes = <<0, 1>>
    /\ codec.nbits = 2

\* the codec __init__ builds from the same arguments on the accelerated backend
AcceleratedTwin(cdc) ==
    ResidualCodec(TRUE, cdc.dim, cdc.nbits, cdc.centroids,
                  cdc.bucket_cutoffs, cdc.bucket_weights)

\* C5: compress on a codec built for the non-accelerated backend completes and
\* returns the codes and packed residuals that compress returns on the codec
\* built from the same parameters for the accelerated backend.
C5_BackendAgreement ==
    (Returned("compress") /\ ~codec.use_gpu) =>
        LET accelerated == compress(AcceleratedTwin(codec), TRUE, call.embs, call.chunks)
        IN  IsOk(accelerated) => call.result = accelerated

\* C6: no codec in the ready state has D not a multiple of 8, D*n not a
\* multiple of 8, a cutoff table not of length 2^n - 1 or a weight table not
\* of length 2^n: the constructor fails on each of these.
C6_ReadyIsValid ==
    codec.state = "ready" =>
        /\ codec.dim % 8 = 0
        /\ (codec.dim * codec.nbits) % 8 = 0
        /\ Len(codec.bucket_cutoffs) = 2^(codec.nbits) - 1
        /\ Len(codec.bucket_weights) = 2^(codec.nbits)

\* C7: decompress of a packed-residual matrix whose row width is not D*n/8
\* fails, on either backend, and returns no rows.
C7_WrongWidthFails ==
    (Returned("decompress") /\ call.residuals.size1 * 8 # codec.dim * codec.nbits) =>
        call.result.status = "error"

\* the codec and the input of the concrete scenario
Scenario ==
    /\ Returned("compress")
    /\ codec.use_gpu
    /\ codec.dim = 8 /\ codec.nbits = 2
    /\ codec.centroids = Centroids(2, 8)
    /\ codec.bucket_cutoffs = <<-(One \div 2), 0, One \div 2>>
    /\ codec.bucket_weights = <<-3 * (One \div 4), -(One \div 4), One \div 4, 3 * (One \div 4)>>
    /\ call.embs = T2(1, 8, <<F09, F03, 0, 0, 0, 0, 0, 0>>)

\* the assignment and quantization steps of the scenario, which the code
\* performs before binarize's assertions
ScenarioCodes ==
    LET batch_ == half_tensor(call.embs)
        codes_ == compress_into_codes(codec, batch_, call.chunks.codes).value
        cents_ == lookup_centroids(codec, codes_, call.chunks.lookup).value
    IN  [codes |-> codes_,
         quantized |-> quantization_codes(subtract(batch_, cents_), codec.bucket_cutoffs).data]

\* C8: in the scenario compress succeeds with centroid code 0, quantizes to
\* 1,2,1,1,1,1,1,1, packs into 2 bytes, and decoding the 2 bytes gives the
\* weights -0.25, 0.25, -0.25 (x6).
C8_Scenario ==
    Scenario =>
        /\ ScenarioCodes.codes = <<0>>
        /\ ScenarioCodes.quantized = <<1, 2, 1, 1, 1, 1, 1, 1>>
        /\ IsOk(call.result)
        /\ call.result.value.codes = <<0>>
        /\ call.result.value.residuals.size1 = 2
        /\ Len(call.result.value.residuals.data) = 2
        /\ decompress_residuals(codec, call.result.value.residuals) =
              Ok(T2(1, 8, [d \in 1..8 |-> IF d = 2 THEN One \div 4 ELSE -(One \div 4)]))

(***************************************************************************)
(* LazyBatcher.                                                            *)
(***************************************************************************)
MaxTriples == 5
MaxBsize == 3
MaxNway == 2
MaxBatchIdx == 2
MaxSkips == 1
MaxStops == 2
MaxBatches == 5

\* Triple number i (0-based) as Examples.tolist delivers it: a query id
\* followed by npids passage ids.
Triple(i, npids) == <<i>> \o [j \in 1..npids |-> 100 * i + j]

\* self.queries[query] and self.collection[pid] of the external containers
QueryText(qid)   == <<"query", qid>>
PassageText(pid) == <<"passage", pid>>

\* pids = pids[: self.nway] after `query, *pids = self.triples[position]`
triple_pids(triple) == SubSeq(triple, 2, Min(Len(triple), 1 + nway))

RECURSIVE gather(_, _)
\* the loop `for position in range(offset, endpos)`: all_queries and
\* all_passages; the passage ids carry no scores, so zipstar raises and
\* all_scores stays empty
gather(from, endpos) ==
    IF from >= endpos THEN [queries |-> <<>>, passages |-> <<>>, scores |-> <<>>]
    ELSE LET triple == triples[from + 1]
             pids   == triple_pids(triple)
             rest   == gather(from + 1, endpos)
         IN  [queries  |-> <<QueryText(triple[1])>> \o rest.queries,
              passages |-> [j \in 1..Len(pids) |-> PassageText(pids[j])] \o rest.passages,
              scores   |-> rest.scores]

\* LazyBatcher.collate: the two assertions, then tensorize_triples (external)
\* on the collated lists
collate(queries, passages, scores) ==
    IF Len(queries) # bsize \/ Len(passages) # nway * bsize
    THEN Err("AssertionError")
    ELSE Ok([queries |-> queries, passages |-> passages, scores |-> scores])

\* a guard that also stops on an offset whose batch ends exactly at the end
exhausted_at_end(offset) == offset + bsize >= Len(triples)

\* `if offset + self.bsize > len(self.triples): raise StopIteration`
exhausted(offset) == offset + bsize > Len(triples)

BatcherInit ==
    /\ \E len \in 1..MaxTriples, extra \in {0, 1}, nw \in 1..MaxNway :
          /\ nway = nw
          /\ triples = [i \in 1..len |-> Triple(i - 1, nw + extra)]
    /\ bsize \in 1..MaxBsize
    /\ position = 0
    /\ last = NoCall
    /\ returned = <<>>
    /\ stops = 0
    /\ skipped = 0
    /\ CodecIdle /\ PureIdle

\* LazyBatcher.__next__ raising StopIteration
NextStop ==
    /\ stops < MaxStops
    /\ exhausted(position)
    /\ position' = Min(position + bsize, Len(triples))
    /\ last' = Err("StopIteration")
    /\ stops' = stops + 1
    /\ UNCHANGED <<triples, bsize, nway, returned, skipped, codecVars, pureVars>>

\* LazyBatcher.__next__ getting past the StopIteration test
NextBatch ==
    /\ Len(returned) < MaxBatches
    /\ ~exhausted(position)
    /\ LET offset == position
           endpos == Min(position + bsize, Len(triples))
           lists  == gather(offset, endpos)
           batch  == IF Len(lists.scores) \notin {0, Len(lists.passages)}
                     THEN Err("AssertionError")
                     ELSE collate(lists.queries, lists.passages, lists.scores)
       IN  /\ position' = endpos
           /\ last' = batch
           /\ returned' = IF IsOk(batch) THEN Append(returned, batch.value) ELSE returned
    /\ UNCHANGED <<triples, bsize, nway, stops, skipped, codecVars, pureVars>>

\* LazyBatcher.skip_to_batch
SkipToBatch ==
    /\ skipped < MaxSkips
    /\ \E batch_idx \in 0..MaxBatchIdx, intended_batch_size \in 1..MaxBsize :
          position' = intended_batch_size * batch_idx
    /\ skipped' = skipped + 1
    /\ last' = NoCall
    /\ UNCHANGED <<triples, bsize, nway, returned, stops, codecVars, pureVars>>

BatcherNext == NextStop \/ NextBatch \/ SkipToBatch

SpecBatcher == BatcherInit /\ [][BatcherNext]_vars

\* The batch built from the bsize consecutive triples at 0-based positions
\* [k*bsize, (k+1)*bsize), in order.
ExpectedBatch(k) ==
    LET at(i) == triples[k * bsize + i]
    IN  [queries  |-> [i \in 1..bsize |-> QueryText(at(i)[1])],
         passages |-> [j \in 1..(bsize * nway) |->
                          PassageText(at(((j - 1) \div nway) + 1)[2 + ((j - 1) % nway)])],
         scores   |-> <<>>]

\* C10: from position 0 and with no skip_to_batch, __next__ returns exactly
\* floor(L / bsize) batches, the k-th built from triples [k*bsize, (k+1)*bsize)
\* in order; the call after the last full batch and every later call raise
\* StopIteration with position = L; no batch has fewer than bsize queries.
C10_Iteration ==
    skipped = 0 =>
        LET L == Len(triples)
            F == L \div bsize
        IN  /\ Len(returned) <= F
            /\ \A k \in 1..Len(returned) :
                  returned[k] = ExpectedBatch(k - 1) /\ Len(returned[k].queries) = bsize
            /\ last.status = "error" => last = Err("StopIteration")
            /\ stops = 0 => position = Len(returned) * bsize
            /\ stops > 0 => /\ last = Err("StopIteration")
                            /\ position = L
                            /\ Len(returned) = F

C10_Witness ==
    /\ skipped = 0
    /\ stops = 2
    /\ Len(triples) = 5
    /\ bsize = 2
    /\ Len(returned) = 2
    /\ position = 5

====
